---- MODULE Spec2Model ----
(***************************************************************************)
(* Model of the gestionnaire backend: four Express routes (register,       *)
(* login, saveData, loadData) over two PostgreSQL tables reached through   *)
(* the node-postgres pool.  Every `await pool.query(...)` is one atomic    *)
(* store step; the handlers of concurrent requests interleave between      *)
(* their store steps.                                                      *)
(*                                                                         *)
(* The routes are those of src/unnamed/part_000.  src/server.js holds the  *)
(* same register, login and loadData routes; its saveData has no account   *)
(* step, and the file is not a loadable script (lines 143-158 repeat the   *)
(* tail of the saveData handler outside any function).                     *)
(***************************************************************************)
EXTENDS Naturals, Sequences, FiniteSets, TLC

(***************************************************************************)
(* JavaScript / JSON values.  Every value has the same three fields so     *)
(* that any two values can be compared.                                    *)
(*   kind : "undefined" "null" "boolean" "number" "string" "array"         *)
(*          "object" "member"                                              *)
(*   text : the literal of a boolean, number or string, the key of a       *)
(*          member                                                         *)
(*   elems: the items of an array, the members of an object, the value of  *)
(*          a member                                                       *)
(***************************************************************************)
Val(k, t, e) == [kind |-> k, text |-> t, elems |-> e]

Undefined == Val("undefined", "", <<>>)

JNull == Val("null", "", <<>>)

JNum(t) == Val("number", t, <<>>)

JStr(s) == Val("string", s, <<>>)

JArr(items) == Val("array", "", items)

JObj(members) == Val("object", "", members)

Member(key, v) == Val("member", key, <<v>>)

\* The empty JSON array, the default of loadData.
EmptyArr == JArr(<<>>)

\* The empty JSON object.
EmptyObj == JObj(<<>>)

\* JavaScript truthiness, as used by `!username`, `!password` and `x || []`.
Falsy(v) ==
    \/ v.kind \in {"undefined", "null"}
    \/ v.kind = "string" /\ v.text = ""
    \/ v.kind = "number" /\ v.text = "0"
    \/ v.kind = "boolean" /\ v.text = "false"

(***************************************************************************)
(* The store's side of a query parameter.  pool.query(text, values) hands  *)
(* each value to node-postgres, which serialises it (utils.prepareValue):  *)
(*   null, undefined -> SQL NULL                                           *)
(*   array           -> a PostgreSQL array literal  {..,..}  (arrayString) *)
(*   other object    -> JSON.stringify(value)                              *)
(*   anything else   -> value.toString()                                   *)
(* A parameter is SQL NULL or a text together with the way it was made.    *)
(***************************************************************************)
SqlNull == Val("NULL", "", <<>>)

Param(how, v) == [isNull |-> FALSE, via |-> how, of |-> v]

NullParam == [isNull |-> TRUE, via |-> "", of |-> Undefined]

prepareValue(v) ==
    IF v.kind \in {"undefined", "null"} THEN NullParam
    ELSE IF v.kind = "array" THEN Param("arrayString", v)
    ELSE IF v.kind = "object" THEN Param("JSON.stringify", v)
    ELSE Param("toString", v)

Parsed(v) == [ok |-> TRUE, value |-> v]

Invalid == [ok |-> FALSE, value |-> Undefined]

\* The JSON value a string's characters denote, for the strings of the
\* model; any other text is not JSON.
JsonTextValue(s) ==
    CASE s = "[]" -> Parsed(EmptyArr)
      [] s = "{}" -> Parsed(EmptyObj)
      [] s = "null" -> Parsed(JNull)
      [] OTHER -> Invalid

\* Input of a text parameter into a JSONB column (the columns personnes and
\* equipes).  JSON.stringify's text parses back to the value; the toString
\* of a boolean or a number is its JSON literal; the toString of a string is
\* its bare characters, JSON only if they happen to spell a JSON text; the
\* array literal of the empty array is {}, which PostgreSQL reads as the
\* empty JSON object, and the array literal of a non-empty array ({"a","b"},
\* {NULL}, {{..}}) is never a JSON text: invalid input syntax.
JsonbIn(p) ==
    IF p.isNull THEN Parsed(SqlNull)
    ELSE IF p.via = "JSON.stringify" THEN Parsed(p.of)
    ELSE IF p.via = "arrayString"
         THEN IF Len(p.of.elems) = 0 THEN Parsed(EmptyObj) ELSE Invalid
    ELSE IF p.of.kind = "string" THEN JsonTextValue(p.of.text)
    ELSE Parsed(p.of)

\* A column of a result row as the handler sees it: SQL NULL is null, a
\* JSONB value is its parsed JSON.
ReadColumn(c) == IF c = SqlNull THEN JNull ELSE c

\* Faulty variant: the column is returned as read, without `|| []`.
OrEmptyArray_asRead(v) == v

\* `x || []`
OrEmptyArray(v) == IF Falsy(v) THEN EmptyArr ELSE v

(***************************************************************************)
(* The universe of the model.                                              *)
(***************************************************************************)
\* Handlers that may be in flight at the same time.
Clients == {"c1", "c2"}

\* Requests admitted in one behaviour.
MaxRequests == 3

\* Usernames that can key a row.
Names == {"alice"}

\* The sentinel credential of an account created by saveData.
no_password_needed == "no_password_needed"

\* username and password fields of a request body: missing, empty, given.
BodyUsernames == {Undefined, JStr("")} \cup {JStr(n) : n \in Names}

BodyPasswords == {Undefined, JStr("pw1"), JStr("pw2")}

Obj1 == JObj(<<Member("id", JNum("1"))>>)

\* personnes field of a request body: missing, null, [], [{"id":1}],
\* {"id":1}, the string "[]".
BodyPersonnes == {Undefined, JNull, EmptyArr, JArr(<<Obj1>>), Obj1, JStr("[]")}

\* equipes field of a request body: missing, [], {"id":1}.
BodyEquipes == {Undefined, EmptyArr, Obj1}

\* Bodies of register and login requests.  A body without a username is
\* tried with one password: the refusal does not read it.
CredentialBodies ==
    {b \in BodyUsernames \X BodyPasswords : Falsy(b[1]) => b[2] = JStr("pw1")}

\* Bodies of saveData requests.  A body without a username is tried with one
\* payload: the refusal does not read it.
SaveBodies ==
    {b \in BodyUsernames \X BodyPersonnes \X BodyEquipes :
        Falsy(b[1]) => b[2] = Obj1 /\ b[3] = Obj1}

(***************************************************************************)
(* Requests and responses.                                                 *)
(***************************************************************************)
Request(op, u, pw, p, e) ==
    [op |-> op, username |-> u, password |-> pw, personnes |-> p, equipes |-> e]

NoRequest == Request("none", Undefined, Undefined, Undefined, Undefined)

Response(status, message, p, e) ==
    [personnes |-> p, equipes |-> e, status |-> status, message |-> message]

Message(status, message) == Response(status, message, Undefined, Undefined)

NoResponse == Message(0, "")

(***************************************************************************)
(* Tables.                                                                 *)
(***************************************************************************)
NoUser == [password |-> "", present |-> FALSE]

UserRow(pw) == [password |-> pw, present |-> TRUE]

NoData == [personnes |-> SqlNull, equipes |-> SqlNull, present |-> FALSE]

DataRow(p, e) == [personnes |-> p, equipes |-> e, present |-> TRUE]

VARIABLES
    users,       \* table users: username -> row
    user_data,   \* table user_data: username -> row
    pc,          \* where each handler stands
    req,         \* the request each handler serves
    resp,        \* the response each handler sent
    atStart,     \* history: the users row of the request's username when the request arrived (login: when its SELECT ran)
    regAtStart,  \* history: the credential register had answered 201 for, when the request arrived
    docSeen,     \* history: the last committed save when loadData's query ran
    committed,   \* history: username -> the payload of the save whose upsert committed last
    registered,  \* history: username -> the credential register answered 201 for
    nreq         \* requests admitted so far

vars == <<users, user_data, pc, req, resp, atStart, regAtStart, docSeen,
          committed, registered, nreq>>

NoDoc == [personnes |-> Undefined, equipes |-> Undefined, any |-> FALSE, rowPresent |-> FALSE]

Init ==
    /\ users = [n \in Names |-> NoUser]
    /\ user_data = [n \in Names |-> NoData]
    /\ pc = [i \in Clients |-> "idle"]
    /\ req = [i \in Clients |-> NoRequest]
    /\ resp = [i \in Clients |-> NoResponse]
    /\ atStart = [i \in Clients |-> NoUser]
    /\ regAtStart = [i \in Clients |-> ""]
    /\ docSeen = [i \in Clients |-> NoDoc]
    /\ committed = [n \in Names |-> NoDoc]
    /\ registered = [n \in Names |-> ""]
    /\ nreq = 0

(***************************************************************************)
(* Store statements, each one atomic.  A statement yields the table after  *)
(* it and whether it raised an error.                                      *)
(***************************************************************************)
Done(tbl) == [ok |-> TRUE, table |-> tbl]

Raised(tbl) == [ok |-> FALSE, table |-> tbl]

\* SELECT * FROM users WHERE username = $1
SelectUser(tbl, u) == IF tbl[u].present THEN <<tbl[u]>> ELSE <<>>

\* Faulty variant: the password is left out of the WHERE clause.
SelectUserPassword_usernameOnly(tbl, u, pw) == IF tbl[u].present THEN <<tbl[u]>> ELSE <<>>

\* SELECT * FROM users WHERE username = $1 AND password = $2
SelectUserPassword(tbl, u, pw) ==
    IF tbl[u].present /\ tbl[u].password = pw THEN <<tbl[u]>> ELSE <<>>

\* Faulty variant: the INSERT replaces the row of a username that has one.
InsertUser_overwrite(tbl, u, pw) == Done([tbl EXCEPT ![u] = UserRow(pw)])

\* INSERT INTO users (username, password) VALUES ($1, $2)
\* username is the PRIMARY KEY: a second row raises a unique violation.
InsertUser(tbl, u, pw) ==
    IF tbl[u].present THEN Raised(tbl)
    ELSE Done([tbl EXCEPT ![u] = UserRow(pw)])

\* Faulty variant: ON CONFLICT (username) DO UPDATE SET password = $2
InsertUserOnConflictDoUpdate(tbl, u, pw) == Done([tbl EXCEPT ![u] = UserRow(pw)])

\* INSERT INTO users (username, password) VALUES ($1, $2)
\* ON CONFLICT (username) DO NOTHING
InsertUserOnConflictDoNothing(tbl, u, pw) ==
    IF tbl[u].present THEN Done(tbl)
    ELSE Done([tbl EXCEPT ![u] = UserRow(pw)])

\* INSERT INTO user_data (username, personnes, equipes) VALUES ($1, $2, $3)
\* ON CONFLICT (username) DO UPDATE SET personnes = $2, equipes = $3
\* Raises on a parameter that is not JSON (invalid input syntax for type
\* json) and on a username without a users row (user_data.username
\* REFERENCES users): nothing is written then.
UpsertUserData(tbl, accounts, u, p, e) ==
    LET pin == JsonbIn(prepareValue(p))
        ein == JsonbIn(prepareValue(e))
    IN  IF ~pin.ok \/ ~ein.ok \/ ~accounts[u].present THEN Raised(tbl)
        ELSE Done([tbl EXCEPT ![u] = DataRow(pin.value, ein.value)])

\* SELECT personnes, equipes FROM user_data WHERE username = $1
SelectUserData(tbl, u) == IF tbl[u].present THEN <<tbl[u]>> ELSE <<>>

(***************************************************************************)
(* Responses of the handlers.                                              *)
(***************************************************************************)
\* register and login: `if (!username || !password)`
MissingCredentials(r) == Falsy(r.username) \/ Falsy(r.password)

\* saveData: `if (!username || personnes === undefined || equipes === undefined)`
MissingSaveFields(r) ==
    Falsy(r.username) \/ r.personnes = Undefined \/ r.equipes = Undefined

\* loadData: `if (!username)`
MissingUsername(r) == Falsy(r.username)

CredentialsRequired == Message(400, "Nom d'utilisateur et mot de passe requis.")

\* Faulty variant: the check lets one existing row through.
UsernameTaken_offByOne(rows) == Len(rows) > 1

\* register: `if (existingUser.rows.length > 0)`
UsernameTaken(rows) == Len(rows) > 0

RegisterResponse(rows) ==
    IF UsernameTaken(rows) THEN Message(409, "Nom d'utilisateur déjà pris.")
    ELSE Message(201, "Inscription réussie.")

RegisterError == Message(500, "Erreur serveur lors de l'inscription.")

LoginResponse(rows) ==
    IF Len(rows) > 0 THEN Message(200, "Connexion réussie.")
    ELSE Message(401, "Nom d'utilisateur ou mot de passe incorrect.")

SaveFieldsRequired ==
    Message(400, "Nom d'utilisateur et données (personnes, equipes) requis.")

SaveResponse(ok) ==
    IF ok THEN Message(200, "Données sauvegardées avec succès.")
    ELSE Message(500, "Erreur serveur lors de la sauvegarde des données.")

UsernameRequired == Message(400, "Nom d'utilisateur requis.")

LoadResponse(rows) ==
    IF Len(rows) > 0
    THEN Response(200, "", OrEmptyArray(ReadColumn(rows[1].personnes)),
                           OrEmptyArray(ReadColumn(rows[1].equipes)))
    ELSE Response(200, "", EmptyArr, EmptyArr)

(***************************************************************************)
(* Handlers.                                                               *)
(***************************************************************************)
\* The users row a request's username names, when it names one.
RowOf(tbl, u) == IF Falsy(u) THEN NoUser ELSE tbl[u.text]

\* A request arrives at a handler that serves none (its last response, if
\* any, has gone out).  valid: it passed the handler's validation and goes on
\* to `next`; otherwise it is answered `refusal`.
Arrive(i, r, valid, next, refusal) ==
    /\ pc[i] \in {"idle", "responded"}
    /\ nreq < MaxRequests
    /\ nreq' = nreq + 1
    /\ req' = [req EXCEPT ![i] = r]
    /\ atStart' = [atStart EXCEPT
                     ![i] = IF r.op \in {"register", "saveData"}
                            THEN RowOf(users, r.username) ELSE NoUser]
    /\ regAtStart' = [regAtStart EXCEPT
                        ![i] = IF r.op = "login" /\ ~Falsy(r.username)
                               THEN registered[r.username.text] ELSE ""]
    /\ pc' = [pc EXCEPT ![i] = IF valid THEN next ELSE "responded"]
    /\ resp' = [resp EXCEPT ![i] = IF valid THEN NoResponse ELSE refusal]
    /\ docSeen' = [docSeen EXCEPT ![i] = NoDoc]
    /\ UNCHANGED <<users, user_data, committed, registered>>

Respond(i, r) ==
    /\ pc' = [pc EXCEPT ![i] = "responded"]
    /\ resp' = [resp EXCEPT ![i] = r]

\* POST /api/register, up to the SELECT.
RegisterStart(i, u, pw) ==
    LET r == Request("register", u, pw, Undefined, Undefined)
    IN  Arrive(i, r, ~MissingCredentials(r), "register_select", CredentialsRequired)

\* POST /api/register: the SELECT and the check of its rows.
RegisterSelect(i) ==
    /\ pc[i] = "register_select"
    /\ LET existingUser == SelectUser(users, req[i].username.text)
       IN  IF UsernameTaken(existingUser)
           THEN Respond(i, RegisterResponse(existingUser))
           ELSE /\ pc' = [pc EXCEPT ![i] = "register_insert"]
                /\ UNCHANGED resp
    /\ UNCHANGED <<users, user_data, req, atStart, regAtStart, docSeen,
                   committed, registered, nreq>>

\* POST /api/register: the INSERT and the answer, 500 from the catch.
RegisterInsert(i) ==
    /\ pc[i] = "register_insert"
    /\ LET u == req[i].username.text
           pw == req[i].password.text
           ins == InsertUser(users, u, pw)
       IN  /\ users' = ins.table
           /\ Respond(i, IF ins.ok THEN RegisterResponse(<<>>) ELSE RegisterError)
           /\ registered' = IF ins.ok THEN [registered EXCEPT ![u] = pw] ELSE registered
    /\ UNCHANGED <<user_data, req, atStart, regAtStart, docSeen, committed, nreq>>

\* POST /api/login, up to the SELECT.
LoginStart(i, u, pw) ==
    LET r == Request("login", u, pw, Undefined, Undefined)
    IN  Arrive(i, r, ~MissingCredentials(r), "login_select", CredentialsRequired)

\* POST /api/login: the SELECT and the answer.
LoginSelect(i) ==
    /\ pc[i] = "login_select"
    /\ LET result == SelectUserPassword(users, req[i].username.text, req[i].password.text)
       IN  Respond(i, LoginResponse(result))
    /\ atStart' = [atStart EXCEPT ![i] = users[req[i].username.text]]
    /\ UNCHANGED <<users, user_data, req, regAtStart, docSeen,
                   committed, registered, nreq>>

\* POST /api/saveData, up to the first statement.
SaveStart(i, u, p, e) ==
    LET r == Request("saveData", u, Undefined, p, e)
    IN  Arrive(i, r, ~MissingSaveFields(r), "save_account", SaveFieldsRequired)

\* POST /api/saveData: the account of the username is created if missing.
SaveEnsureAccount(i) ==
    /\ pc[i] = "save_account"
    /\ users' = InsertUserOnConflictDoNothing(users, req[i].username.text,
                                              no_password_needed).table
    /\ pc' = [pc EXCEPT ![i] = "save_upsert"]
    /\ UNCHANGED <<user_data, req, resp, atStart, regAtStart, docSeen,
                   committed, registered, nreq>>

\* POST /api/saveData: the upsert and the answer, 500 from the catch.
SaveUpsert(i) ==
    /\ pc[i] = "save_upsert"
    /\ LET u == req[i].username.text
           up == UpsertUserData(user_data, users, u, req[i].personnes, req[i].equipes)
       IN  /\ user_data' = up.table
           /\ Respond(i, SaveResponse(up.ok))
           /\ committed' =
                IF up.ok
                THEN [committed EXCEPT ![u] =
                        [personnes |-> req[i].personnes, equipes |-> req[i].equipes,
                         any |-> TRUE, rowPresent |-> TRUE]]
                ELSE committed
    /\ UNCHANGED <<users, req, atStart, regAtStart, docSeen, registered, nreq>>

\* GET /api/loadData/:username, up to the SELECT.  The route matches only a
\* non-empty path segment, so the username is a non-empty string.
LoadStart(i, u) ==
    LET r == Request("loadData", u, Undefined, Undefined, Undefined)
    IN  Arrive(i, r, ~MissingUsername(r), "load_select", UsernameRequired)

\* GET /api/loadData/:username: the SELECT and the answer.
LoadSelect(i) ==
    /\ pc[i] = "load_select"
    /\ LET u == req[i].username.text
           result == SelectUserData(user_data, u)
       IN  /\ Respond(i, LoadResponse(result))
           /\ docSeen' = [docSeen EXCEPT
                            ![i] = [committed[u] EXCEPT !.rowPresent = Len(result) > 0]]
    /\ UNCHANGED <<users, user_data, req, atStart, regAtStart, committed,
                   registered, nreq>>

\* No handler is between two store steps.
Quiet == \A j \in Clients : pc[j] \in {"idle", "responded"}

Next ==
    \E i \in Clients :
        \/ \E b \in CredentialBodies : RegisterStart(i, b[1], b[2])
        \/ RegisterSelect(i)
        \/ RegisterInsert(i)
        \/ \E b \in CredentialBodies : LoginStart(i, b[1], b[2])
        \/ LoginSelect(i)
        \/ \E b \in SaveBodies : SaveStart(i, b[1], b[2], b[3])
        \/ SaveEnsureAccount(i)
        \/ SaveUpsert(i)
        \/ \E n \in Names : LoadStart(i, JStr(n))
        \/ LoadSelect(i)

\* Requests arrive at any time: handlers run concurrently.
Spec == Init /\ [][Next]_vars

\* One request at a time: a request arrives only when no handler is between
\* two store steps.
SeqNext ==
    \E i \in Clients :
        \/ Quiet /\ \E b \in CredentialBodies : RegisterStart(i, b[1], b[2])
        \/ RegisterSelect(i)
        \/ RegisterInsert(i)
        \/ Quiet /\ \E b \in CredentialBodies : LoginStart(i, b[1], b[2])
        \/ LoginSelect(i)
        \/ Quiet /\ \E b \in SaveBodies : SaveStart(i, b[1], b[2], b[3])
        \/ SaveEnsureAccount(i)
        \/ SaveUpsert(i)
        \/ Quiet /\ \E n \in Names : LoadStart(i, JStr(n))
        \/ LoadSelect(i)

SeqSpec == Init /\ [][SeqNext]_vars

(***************************************************************************)
(* Properties.                                                             *)
(***************************************************************************)
\* Handler i has answered a request of kind op.
Answered(i, op) == pc[i] = "responded" /\ req[i].op = op

\* Handler i has answered a request of kind op that passed validation.
AnsweredValid(i, op) == Answered(i, op) /\ resp[i].status # 400

\* C1: a loadData whose SELECT ran when the last committed save of its
\* username had the payload (p, e) answers 200 with personnes exactly p and
\* equipes exactly e.
SaveLoadRoundTrip ==
    \A i \in Clients :
        Answered(i, "loadData") /\ docSeen[i].any =>
            /\ resp[i].status = 200
            /\ resp[i].personnes = docSeen[i].personnes
            /\ resp[i].equipes = docSeen[i].equipes

\* C2: the stored document of a username is the (personnes, equipes) pair of
\* the request whose upsert committed last.
StoredIsLastSavedPair ==
    \A n \in Names :
        committed[n].any =>
            /\ user_data[n].present
            /\ ReadColumn(user_data[n].personnes) = committed[n].personnes
            /\ ReadColumn(user_data[n].equipes) = committed[n].equipes

\* The stored document of a username is the row the request whose upsert
\* committed last wrote: both columns come from that one request.
LastWriteWins ==
    \A n \in Names :
        committed[n].any =>
            user_data[n] = DataRow(JsonbIn(prepareValue(committed[n].personnes)).value,
                                   JsonbIn(prepareValue(committed[n].equipes)).value)

\* Every user_data row's username has a users row.
ForeignKeyIntegrity ==
    \A n \in Names : user_data[n].present => users[n].present

\* C3: a saveData for a username that had no account row when it arrived is
\* answered 200 and leaves the username with an account, and every
\* user_data row's username has a users row.
SaveWithoutAccountSucceeds ==
    /\ ForeignKeyIntegrity
    /\ \A i \in Clients :
        AnsweredValid(i, "saveData") /\ ~atStart[i].present =>
            /\ resp[i].status = 200
            /\ users[req[i].username.text].present

\* C4: with one request at a time, a register for a username that has a row
\* is answered 409 and leaves the row as it was; a register for a username
\* without a row is answered 201 and the row holds its credential.
RegisterThenConflict ==
    \A i \in Clients :
        AnsweredValid(i, "register") =>
            IF atStart[i].present
            THEN /\ resp[i].status = 409
                 /\ users[req[i].username.text] = atStart[i]
            ELSE /\ resp[i].status = 201
                 /\ users[req[i].username.text] = UserRow(req[i].password.text)

\* C4 witness: both handlers have answered a register of the same username,
\* one 201 and one 409 (the second found the row the first inserted).
RegisterTwiceSeen ==
    \E i, j \in Clients :
        /\ AnsweredValid(i, "register") /\ resp[i].status = 201
        /\ AnsweredValid(j, "register") /\ resp[j].status = 409
        /\ req[i].username = req[j].username
        /\ atStart[j] = UserRow(req[i].password.text)

\* C5: a login that arrives after register answered 201 for its username and
\* credential is answered 200.
RegisteredLoginSucceeds ==
    \A i \in Clients :
        AnsweredValid(i, "login") /\ regAtStart[i] # ""
                                  /\ regAtStart[i] = req[i].password.text =>
            resp[i].status = 200

\* C5 witness: such a login has been answered after a saveData on the same
\* username committed in between.
RegisteredLoginSeen ==
    \E i \in Clients :
        /\ AnsweredValid(i, "login")
        /\ regAtStart[i] # ""
        /\ regAtStart[i] = req[i].password.text
        /\ committed[req[i].username.text].any

\* C6: loadData is answered 200, personnes and equipes are never null, and
\* both are [] when the username has no document row.
LoadDefaultsToEmpty ==
    \A i \in Clients :
        Answered(i, "loadData") =>
            /\ resp[i].status = 200
            /\ resp[i].personnes # JNull
            /\ resp[i].equipes # JNull
            /\ ~docSeen[i].rowPresent =>
                    resp[i].personnes = EmptyArr /\ resp[i].equipes = EmptyArr

\* C6 witness: one loadData found no row, another found a row whose
\* personnes column is SQL NULL.
LoadDefaultsSeen ==
    \E i, j \in Clients :
        /\ Answered(i, "loadData") /\ ~docSeen[i].rowPresent
        /\ Answered(j, "loadData") /\ docSeen[j].rowPresent
        /\ docSeen[j].personnes = JNull
        /\ user_data[req[j].username.text].personnes = SqlNull

\* A saveData that fails validation is answered 400.
SaveRefused ==
    \A i \in Clients :
        Answered(i, "saveData") /\ MissingSaveFields(req[i]) => resp[i].status = 400

\* A saveData with a username, personnes = [] and equipes present is
\* answered 200, and a loadData that follows returns personnes = [].
EmptyPersonnesRoundTrip ==
    /\ \A i \in Clients :
        Answered(i, "saveData") /\ ~MissingSaveFields(req[i])
                                /\ req[i].personnes = EmptyArr =>
            resp[i].status = 200
    /\ \A i \in Clients :
        Answered(i, "loadData") /\ docSeen[i].any
                                /\ docSeen[i].personnes = EmptyArr =>
            resp[i].personnes = EmptyArr

\* The step that answers a request 400 writes to neither table.
RefusalWritesNothing ==
    \A i \in Clients :
        pc'[i] = "responded" /\ resp'[i].status = 400 /\ resp'[i] # resp[i] =>
            users' = users /\ user_data' = user_data

\* C7: a saveData without a username, personnes or equipes is answered 400
\* and leaves both tables unchanged; a saveData with a username,
\* personnes = [] and equipes present is answered 200, and a loadData that
\* follows returns personnes = [].
SaveValidationAndEmptyPersonnes ==
    /\ [](SaveRefused /\ EmptyPersonnesRoundTrip)
    /\ [][RefusalWritesNothing]_vars

\* A login rejected because the username has no account.
RejectedUnknown(i) == AnsweredValid(i, "login") /\ ~atStart[i].present

\* A login rejected because the credential is not the account's.
RejectedWrong(i) ==
    /\ AnsweredValid(i, "login")
    /\ atStart[i].present
    /\ atStart[i].password # req[i].password.text

\* C8: a login for a username without an account and a login with a wrong
\* credential for a username with one get the same response, status 401.
LoginRejectionsAlike ==
    \A i, j \in Clients :
        RejectedUnknown(i) /\ RejectedWrong(j) =>
            resp[i] = resp[j] /\ resp[i].status = 401

\* C8 witness: both rejections have been answered.
LoginRejectionsSeen ==
    \E i, j \in Clients : RejectedUnknown(i) /\ RejectedWrong(j)

\* C9: no step changes or removes an account row, and no step removes a
\* document row.
AccountsNeverChange ==
    [][\A n \in Names :
        /\ users[n].present => users'[n] = users[n]
        /\ user_data[n].present => user_data'[n].present]_vars

\* C9 witness: a saveData has committed for a username that register had
\* created, and the account still has the registered credential.
SaveOnRegisteredSeen ==
    \E i \in Clients :
        /\ AnsweredValid(i, "saveData")
        /\ resp[i].status = 200
        /\ atStart[i].present
        /\ atStart[i].password = registered[req[i].username.text]
        /\ users[req[i].username.text] = atStart[i]
        /\ user_data[req[i].username.text].present

\* C10: of the registers for one username whose row a register created,
\* exactly one is answered 201, its credential is the one stored, and every
\* other is answered 409: none is answered 500.
ConcurrentRegisterOneWinner ==
    /\ \A i \in Clients :
        AnsweredValid(i, "register") /\ registered[req[i].username.text] # "" =>
            /\ resp[i].status \in {201, 409}
            /\ resp[i].status = 201 =>
                    users[req[i].username.text] = UserRow(req[i].password.text)
    /\ \A i, j \in Clients :
        /\ i # j
        /\ AnsweredValid(i, "register") /\ AnsweredValid(j, "register")
        /\ req[i].username = req[j].username
        => ~(resp[i].status = 201 /\ resp[j].status = 201)

====
